---- MODULE Spec2Model ----
(***************************************************************************)
(* A model of stac-gen's create_stac_catalog pipeline                      *)
(* (src/stac_gen/create_stac_catalog.py): the paginated key lister, the    *)
(* COG gatekeeper, the extent accumulators and the catalog assembly.       *)
(***************************************************************************)
EXTENDS Integers, Sequences, FiniteSets, TLC

(***************************************************************************)
(* Bounds of the model.                                                    *)
(***************************************************************************)
\* the most keys the object store puts in one listing page
MaxKeysPerPage == 2
\* coordinates of the merge specification range over 0..MaxCoord
MaxCoord == 1
\* instants of the merge specification range over 0..MaxTime
MaxTime == 2
\* the most timestamps the temporal merge specification merges
MaxMerges == 3
\* the most characters of a key of the id rule specification
MaxKeyLen == 3

(***************************************************************************)
(* Asset keys.  A key is modelled by its rank in the store's (ascending)   *)
(* listing order; the tables below give what the program reads off a key.  *)
(***************************************************************************)
AllKeys == {1, 2, 3, 4, 5, 6}

NoMarker == 0
NoContents == "absent"
None == "None"

VARIABLES
    pc,           \* position of the run in create_stac_catalog
    err,          \* the exception that aborted the run, or None
    bucket,       \* keys the source bucket holds under BUCKET_PREFIX
    response,     \* get_s3_listing: the last list_objects response
    all_objects,  \* get_s3_listing: keys accumulated so far
    requests,     \* history: the Marker of every list_objects request, in order
    served,       \* history: every response received, in order
    all_keys,     \* the value get_s3_listing returned, or None
    spatial_extent,   \* the running spatial extent {left, bottom, right, top}
    temporal_extent,  \* the running temporal extent {earliest, latest}
    probe,        \* inputs and second accumulator of the merge specifications
    config_file,  \* the configuration as written in the config file
    stac_config,  \* the run's configuration dictionary (extent is written back)
    input_keys,   \* the listed keys that end with COG_SUFFIX
    idx,          \* 1-based index into input_keys of the asset being processed
    collection,   \* the Collection object of the run
    collection_already_exists,
    catalog,      \* the root Catalog object of the run
    item_dicts,   \* the items built so far
    gate,         \* the asset being processed: validator outcome, is_valid_cog,
                  \* image_url, whether convert_to_cog was invoked
    local,        \* the documents saved under temp_dir
    remote,       \* the output bucket: the published catalog and collection
    hist          \* history of the run: the output bucket at its start, whether
                  \* it re-runs a completed run on the same bucket, the
                  \* converted files it uploaded, its events

listVars == <<bucket, response, all_objects, requests, served, all_keys>>
extentVars == <<spatial_extent, temporal_extent>>
runVars == <<config_file, stac_config, input_keys, idx, collection,
             collection_already_exists, catalog, item_dicts, gate, local,
             remote, hist>>
vars == <<pc, err, listVars, extentVars, probe, runVars>>

(***************************************************************************)
(* Sequences.                                                              *)
(***************************************************************************)
Last(s) == s[Len(s)]

RECURSIVE SortedSeq(_)
SortedSeq(S) ==
    IF S = {} THEN <<>>
    ELSE LET m == CHOOSE x \in S : \A y \in S : x <= y
         IN  <<m>> \o SortedSeq(S \ {m})

Take(s, n) == SubSeq(s, 1, n)

RECURSIVE ConcatContents(_)
ConcatContents(ps) ==
    IF ps = <<>> THEN <<>>
    ELSE (IF ps[1].Contents = NoContents THEN <<>> ELSE ps[1].Contents)
         \o ConcatContents(Tail(ps))

(***************************************************************************)
(* The object store's list_objects (no Delimiter): the keys after Marker   *)
(* in ascending order, at most a page of them (the store may return fewer  *)
(* than asked), IsTruncated when more remain.  A response with no key      *)
(* carries no Contents field.  The contract says NextMarker is not sent    *)
(* without a Delimiter; a store that violates it may send the field on any *)
(* response.                                                               *)
(***************************************************************************)
ListObjects(bkt, marker) ==
    LET rest == SortedSeq({k \in bkt : k > marker})
    IN  IF rest = <<>>
        THEN {[Contents |-> NoContents, IsTruncated |-> FALSE, NextMarker |-> nm] :
                 nm \in BOOLEAN}
        ELSE {[Contents |-> Take(rest, n), IsTruncated |-> n < Len(rest),
               NextMarker |-> nm] :
                 n \in 1..(IF Len(rest) < MaxKeysPerPage THEN Len(rest)
                           ELSE MaxKeysPerPage),
                 nm \in BOOLEAN}

(***************************************************************************)
(* Timestamps.  An instant is a whole number (the program's datetimes all  *)
(* come from parsing whole-second text).  A value the program handles is   *)
(* None, a native datetime, or a string; the text of a string is a         *)
(* sequence of character codes, 0..9 for the digits.                       *)
(***************************************************************************)
NoneV == [kind |-> "none"]
Dt(n) == [kind |-> "datetime", t |-> n]
Str(txt) == [kind |-> "str", text |-> txt]

\* datetime.strftime(STAC_DATE_FORMAT): zero-padded decimal fields
Strftime(d) == Str(<<d.t \div 10, d.t % 10>>)

\* whether text matches STAC_DATE_FORMAT
MatchesFormat(txt) == Len(txt) = 2 /\ \A i \in 1..2 : txt[i] \in 0..9

\* datetime.strptime(text, STAC_DATE_FORMAT) of matching text
Strptime(txt) == Dt(txt[1] * 10 + txt[2])

\* whether Python orders the two values (datetime with datetime, str with
\* str); any other pair raises TypeError
Comparable(a, b) == a.kind = b.kind /\ a.kind \in {"datetime", "str"}

RECURSIVE TextLess(_, _)
TextLess(x, y) ==
    IF y = <<>> THEN FALSE
    ELSE IF x = <<>> THEN TRUE
    ELSE IF x[1] # y[1] THEN x[1] < y[1]
    ELSE TextLess(Tail(x), Tail(y))

\* a < b for comparable values
Less(a, b) == IF a.kind = "datetime" THEN a.t < b.t ELSE TextLess(a.text, b.text)

(***************************************************************************)
(* The extent accumulators (lines 146-169, 405-442).                       *)
(***************************************************************************)
\* float('inf') and float('-inf'): beyond every geographic coordinate
PosInf == 999
NegInf == -999

\* lines 417-422
EmptySpatialExtent ==
    [left |-> PosInf, bottom |-> PosInf, right |-> NegInf, top |-> NegInf]

\* lines 437-440
EmptyTemporalExtent == [earliest |-> NoneV, latest |-> NoneV]

\* lines 146-155; new_bounds = <<left, bottom, right, top>>
\* (variant: the bottom comparison of lines 152-153 left out)
UpdateSpatialExtent_NoBottom(extent, new_bounds) ==
    [left   |-> IF new_bounds[1] < extent.left THEN new_bounds[1] ELSE extent.left,
     right  |-> IF new_bounds[3] > extent.right THEN new_bounds[3] ELSE extent.right,
     bottom |-> extent.bottom,
     top    |-> IF new_bounds[4] > extent.top THEN new_bounds[4] ELSE extent.top]

\* (variant: the right comparison of lines 150-151 turned round)
UpdateSpatialExtent_RightShrinks(extent, new_bounds) ==
    [left   |-> IF new_bounds[1] < extent.left THEN new_bounds[1] ELSE extent.left,
     right  |-> IF new_bounds[3] < extent.right THEN new_bounds[3] ELSE extent.right,
     bottom |-> IF new_bounds[2] < extent.bottom THEN new_bounds[2] ELSE extent.bottom,
     top    |-> IF new_bounds[4] > extent.top THEN new_bounds[4] ELSE extent.top]

UpdateSpatialExtent(extent, new_bounds) ==
    [left   |-> IF new_bounds[1] < extent.left THEN new_bounds[1] ELSE extent.left,
     right  |-> IF new_bounds[3] > extent.right THEN new_bounds[3] ELSE extent.right,
     bottom |-> IF new_bounds[2] < extent.bottom THEN new_bounds[2] ELSE extent.bottom,
     top    |-> IF new_bounds[4] > extent.top THEN new_bounds[4] ELSE extent.top]

\* lines 159-164: a string in STAC_DATE_FORMAT is parsed; anything else
\* (a datetime, None, other text) makes strptime raise and is kept as it is
ConvertIfNeeded(v) ==
    IF v.kind = "str" /\ MatchesFormat(v.text) THEN Strptime(v.text) ELSE v

\* lines 158-169.  The result is [raised, extent]: the comparison of line 166
\* or 168 raises TypeError when the two values are not comparable.
\* (variant: only the `is None` half of the conditions of lines 166 and 168)
UpdateTemporalExtent_KeepFirst(extent, datetime_obj) ==
    LET d == ConvertIfNeeded(datetime_obj)
    IN  [raised |-> FALSE,
         extent |-> [earliest |-> IF extent.earliest.kind = "none" THEN d
                                  ELSE extent.earliest,
                     latest   |-> IF extent.latest.kind = "none" THEN d
                                  ELSE extent.latest]]

UpdateTemporalExtent(extent, datetime_obj) ==
    LET d == ConvertIfNeeded(datetime_obj)
        e1 == extent.earliest
        l1 == extent.latest
        raise1 == e1.kind # "none" /\ ~Comparable(d, e1)
        e2 == IF e1.kind = "none" THEN d
              ELSE IF Comparable(d, e1) /\ Less(d, e1) THEN d ELSE e1
        raise2 == l1.kind # "none" /\ ~Comparable(d, l1)
        l2 == IF l1.kind = "none" THEN d
              ELSE IF Comparable(d, l1) /\ Less(l1, d) THEN d ELSE l1
    IN  IF raise1 THEN [raised |-> TRUE, extent |-> extent]
        ELSE IF raise2
             THEN [raised |-> TRUE, extent |-> [extent EXCEPT !.earliest = e2]]
        ELSE [raised |-> FALSE, extent |-> [earliest |-> e2, latest |-> l2]]

(***************************************************************************)
(* get_s3_listing (lines 109-132).                                         *)
(***************************************************************************)
\* line 123: the Marker of the next request is the last key of the response
\* (variant: index [0] in place of [-1])
NextRequestMarker_FirstKey(resp) == resp.Contents[1]

NextRequestMarker(resp) == Last(resp.Contents)

\* line 130: all_objects += response['Contents']
\* (variant: `=` in place of `+=`)
Accumulate_Overwrite(objs, resp) == resp.Contents

Accumulate(objs, resp) == objs \o resp.Contents

\* lines 114-118: the first request carries no Marker; all_objects starts as
\* its Contents (KeyError when the response has none)
ListFirst ==
    /\ pc = "list"
    /\ \E resp \in ListObjects(bucket, NoMarker) :
         /\ response' = resp
         /\ requests' = <<NoMarker>>
         /\ served' = <<resp>>
         /\ IF resp.Contents = NoContents
            THEN /\ pc' = "aborted"
                 /\ err' = "KeyError"
                 /\ UNCHANGED all_objects
            ELSE /\ pc' = "list_loop"
                 /\ all_objects' = resp.Contents
                 /\ UNCHANGED err
    /\ UNCHANGED <<bucket, all_keys, extentVars, probe, runVars>>

\* lines 119-122: a truncated response that carries NextMarker fails the assert
\* (variant: the assert statement not executed, as under python -O)
ListNextMarkerFail_Skipped ==
    /\ pc = "list_loop"
    /\ response.IsTruncated
    /\ response.NextMarker
    /\ LET marker == Last(response.Contents)
       IN \E resp \in ListObjects(bucket, marker) :
            /\ response' = resp
            /\ requests' = Append(requests, marker)
            /\ served' = Append(served, resp)
            /\ all_objects' = all_objects \o
                   (IF resp.Contents = NoContents THEN <<>> ELSE resp.Contents)
    /\ UNCHANGED <<pc, err, bucket, all_keys, extentVars, probe, runVars>>

ListNextMarkerFail ==
    /\ pc = "list_loop"
    /\ response.IsTruncated
    /\ response.NextMarker
    /\ pc' = "aborted"
    /\ err' = "AssertionError"
    /\ UNCHANGED <<listVars, extentVars, probe, runVars>>

\* lines 119-130: the next page is asked with Marker = last key of this one
ListNextPage ==
    /\ pc = "list_loop"
    /\ response.IsTruncated
    /\ ~response.NextMarker
    /\ LET marker == NextRequestMarker(response)
       IN \E resp \in ListObjects(bucket, marker) :
            /\ response' = resp
            /\ requests' = Append(requests, marker)
            /\ served' = Append(served, resp)
            /\ IF resp.Contents = NoContents
               THEN /\ pc' = "aborted"
                    /\ err' = "KeyError"
                    /\ UNCHANGED all_objects
               ELSE /\ pc' = "list_loop"
                    /\ all_objects' = Accumulate(all_objects, resp)
                    /\ UNCHANGED err
    /\ UNCHANGED <<bucket, all_keys, extentVars, probe, runVars>>

\* lines 119, 131-132: a response that is not truncated ends the loop
ListReturn ==
    /\ pc = "list_loop"
    /\ ~response.IsTruncated
    /\ all_keys' = all_objects
    /\ pc' = "listed"
    /\ UNCHANGED <<err, bucket, response, all_objects, requests, served,
                   extentVars, probe, runVars>>

GetS3Listing == ListFirst \/ ListNextMarkerFail \/ ListNextPage \/ ListReturn

(***************************************************************************)
(* What the program reads off an asset key.                                *)
(***************************************************************************)
\* line 478: f.endswith(stac_config['COG_SUFFIX'])
EndsWithCogSuffix(k) == k \in {1, 2, 4, 5}

\* lines 519-522: the raster's bounds, reprojected to EPSG:4326;
\* <<left, bottom, right, top>>
BoundsGeo(k) ==
    CASE k = 1 -> <<-90, 40, -89, 41>>
      [] k = 2 -> <<-91, 39, -90, 40>>
      [] k = 4 -> <<-90, 39, -89, 40>>
      [] OTHER -> <<-92, 38, -91, 39>>

\* line 197: the text of the sidecar's caldate node, <<>> when it has none
SidecarCaldate(k) ==
    CASE k = 1 -> <<2, 0>>
      [] k = 2 -> <<1, 9>>
      [] OTHER -> <<>>

\* the buckets the pipeline is run on
RunBuckets == {{}, {3}, {1}, {4}, {1, 2, 3}}

(***************************************************************************)
(* Documents.  A link is <<rel, target>>.                                  *)
(***************************************************************************)
NoDoc == [kind |-> "absent"]
NoExtent == [kind |-> "absent"]
\* spatial is <<left, bottom, right, top>>, temporal <<earliest, latest>>
\* (strings); <<>> stands for a field the dictionary does not hold
Extent(sp, tm) == [kind |-> "extent", spatial |-> sp, temporal |-> tm]
ChildLink == <<"child", 0>>
\* items: the ids of the item documents, in the order they were added
EmptyTree == [catalog |-> NoDoc, collection |-> NoDoc, items |-> <<>>]
EmptyStore == [catalog |-> NoDoc, collection |-> NoDoc]
NoHistory == [before |-> EmptyStore, rerun |-> FALSE, cogs |-> {}, log |-> <<>>]

(***************************************************************************)
(* Configuration (the keys the modelled steps read).                       *)
(***************************************************************************)
\* a key the dictionary does not hold
NoField == [kind |-> "absent"]

ConfiguredExtent == Extent(<<-90, 40, -89, 41>>, <<Strftime(Dt(20)), Strftime(Dt(20))>>)

Configs ==
    [ALLOW_COG_CONVERSION : {"absent", "false", "true"},
     ITEM_TIMESTAMP : {NoneV, Strftime(Dt(21))},
     S3_KEY_TO_FGDC_S3_KEY : BOOLEAN,
     DISABLE_STAC_LINT : BOOLEAN,
     FILENAME_REGEX : {NoField},
     extent : {NoExtent, ConfiguredExtent}]

\* stac_config.get('ALLOW_COG_CONVERSION', False), as a truth value
AllowCogConversion(cfg) == cfg.ALLOW_COG_CONVERSION = "true"

(***************************************************************************)
(* create_stac_catalog (lines 467-613), one run after another.             *)
(***************************************************************************)
NoGate == [validation |-> [kind |-> "none"], is_valid_cog |-> FALSE,
           image_url |-> <<"none", 0>>, convert |-> "none"]

RunIdle ==
    /\ config_file = NoDoc
    /\ stac_config = NoDoc
    /\ input_keys = <<>>
    /\ idx = 0
    /\ collection = NoDoc
    /\ collection_already_exists = FALSE
    /\ catalog = NoDoc
    /\ item_dicts = <<>>
    /\ gate = NoGate
    /\ local = EmptyTree
    /\ remote = EmptyStore
    /\ hist = NoHistory

Abort(e) == pc' = "aborted" /\ err' = e

Log(event) == hist' = [hist EXCEPT !.log = Append(@, event)]

\* lines 467-475: the working directory is emptied and the configuration
\* read; the bucket holds what it holds when the run starts
StartRun ==
    /\ pc \in {"idle", "done", "aborted"}
    /\ pc' = "list"
    /\ err' = None
    /\ bucket' \in RunBuckets
    /\ response' = [Contents |-> NoContents, IsTruncated |-> FALSE, NextMarker |-> FALSE]
    /\ all_objects' = <<>>
    /\ requests' = <<>>
    /\ served' = <<>>
    /\ all_keys' = None
    /\ spatial_extent' = EmptySpatialExtent
    /\ temporal_extent' = EmptyTemporalExtent
    /\ stac_config' = config_file
    /\ input_keys' = <<>>
    /\ idx' = 0
    /\ collection' = NoDoc
    /\ collection_already_exists' = FALSE
    /\ catalog' = NoDoc
    /\ item_dicts' = <<>>
    /\ gate' = NoGate
    /\ local' = EmptyTree
    /\ hist' = [before |-> remote, rerun |-> pc = "done" /\ bucket' = bucket,
                cogs |-> {}, log |-> <<>>]
    /\ UNCHANGED <<probe, config_file, remote>>

\* lines 477-480: the listing is filtered to the keys ending with COG_SUFFIX
\* (variant: every listed key is taken)
FilterKeys_NoFilter ==
    /\ pc = "listed"
    /\ input_keys' = all_keys
    /\ item_dicts' = <<>>
    /\ response' = [Contents |-> NoContents, IsTruncated |-> FALSE, NextMarker |-> FALSE]
    /\ all_objects' = <<>>
    /\ requests' = <<>>
    /\ served' = <<>>
    /\ pc' = "open_collection"
    /\ UNCHANGED <<err, bucket, all_keys, extentVars, probe, config_file, stac_config,
                   idx, collection, collection_already_exists, catalog, gate,
                   local, remote, hist>>

FilterKeys ==
    /\ pc = "listed"
    /\ input_keys' = SelectSeq(all_keys, EndsWithCogSuffix)
    /\ item_dicts' = <<>>
    /\ response' = [Contents |-> NoContents, IsTruncated |-> FALSE, NextMarker |-> FALSE]
    /\ all_objects' = <<>>
    /\ requests' = <<>>
    /\ served' = <<>>
    /\ pc' = "open_collection"
    /\ UNCHANGED <<err, bucket, all_keys, extentVars, probe, config_file, stac_config,
                   idx, collection, collection_already_exists, catalog, gate,
                   local, remote, hist>>

\* line 491: satstac.Collection(stac_config['COLLECTION_METADATA']): the
\* object's data is the configuration's dictionary itself
NewCollection(cfg) == [kind |-> "collection", extent |-> cfg.extent, links |-> {}]

\* lines 405-424
GetInitialSpatialExtent(coll) ==
    IF coll.extent.kind = "extent" /\ Len(coll.extent.spatial) = 4
    THEN [left |-> coll.extent.spatial[1], bottom |-> coll.extent.spatial[2],
          right |-> coll.extent.spatial[3], top |-> coll.extent.spatial[4]]
    ELSE EmptySpatialExtent

\* lines 427-442
GetInitialTemporalExtent(coll) ==
    IF /\ coll.extent.kind = "extent"
       /\ Len(coll.extent.temporal) = 2
       /\ \A i \in 1..2 : /\ coll.extent.temporal[i].kind = "str"
                          /\ MatchesFormat(coll.extent.temporal[i].text)
    THEN [earliest |-> Strptime(coll.extent.temporal[1].text),
          latest |-> Strptime(coll.extent.temporal[2].text)]
    ELSE EmptyTemporalExtent

\* the item loop starts at the first key, or is skipped when there is none
LoopFrom(i, keys) == IF i <= Len(keys) THEN "validate" ELSE "writeback"

\* lines 482-494: the Collection is opened from the output bucket; any
\* failure of the open (the document is not there, or the retrieval fails)
\* creates a new one
\* (variant: the failure of the open is not caught)
OpenCollection_Propagates ==
    /\ pc = "open_collection"
    /\ \E opened \in (IF remote.collection.kind = "absent" THEN {FALSE} ELSE BOOLEAN) :
         IF opened
         THEN /\ collection_already_exists' = TRUE
              /\ collection' = remote.collection
              /\ spatial_extent' = GetInitialSpatialExtent(collection')
              /\ temporal_extent' = GetInitialTemporalExtent(collection')
              /\ idx' = 1
              /\ pc' = LoopFrom(1, input_keys)
              /\ UNCHANGED err
         ELSE /\ Abort("STACError")
              /\ UNCHANGED <<collection_already_exists, collection, extentVars, idx>>
    /\ UNCHANGED <<listVars, probe, config_file, stac_config, input_keys,
                   catalog, item_dicts, gate, local, remote, hist>>

OpenCollection ==
    /\ pc = "open_collection"
    /\ \E opened \in (IF remote.collection.kind = "absent" THEN {FALSE} ELSE BOOLEAN) :
         /\ collection_already_exists' = opened
         /\ collection' = IF opened THEN remote.collection ELSE NewCollection(stac_config)
    /\ spatial_extent' = GetInitialSpatialExtent(collection')
    /\ temporal_extent' = GetInitialTemporalExtent(collection')
    /\ idx' = 1
    /\ pc' = LoopFrom(1, input_keys)
    /\ UNCHANGED <<err, listVars, probe, config_file, stac_config, input_keys,
                   catalog, item_dicts, gate, local, remote, hist>>

\* lines 498-505 (REQUESTER_PAYS changes the scheme of the URL only)
OriginalUrl(k) == <<"source", k>>

\* lines 333-337: s3://OUTPUT_BUCKET_NAME/<collection id>/<name>_COG.TIF
ConvertedUrl(k) == <<"output_cog", k>>

\* what validate() may do: return (warnings, errors, details), raise
\* ValidateCloudOptimizedGeoTIFFException, or raise something else
ValidatorOutcomes ==
    {[kind |-> "returned", warnings |-> w, errors |-> e] : w \in 0..1, e \in 0..1}
    \cup {[kind |-> "cog_exception"], [kind |-> "other_exception"]}

\* lines 298-329: "valid", "invalid" or "raise"
\* (variant: the `if errors:` branch of lines 320-326 left out)
ValidateCog_ErrorsIgnored(outcome) ==
    CASE outcome.kind = "cog_exception" -> "invalid"
      [] outcome.kind = "other_exception" -> "raise"
      [] OTHER -> "valid"

ValidateCog(outcome) ==
    CASE outcome.kind = "cog_exception" -> "invalid"
      [] outcome.kind = "other_exception" -> "raise"
      [] OTHER -> IF outcome.errors > 0 THEN "invalid" ELSE "valid"

\* lines 498-507
ValidateAsset ==
    /\ pc = "validate"
    /\ \E outcome \in ValidatorOutcomes :
         LET v == ValidateCog(outcome)
         IN  /\ gate' = [validation |-> outcome, is_valid_cog |-> v = "valid",
                         image_url |-> OriginalUrl(input_keys[idx]),
                         convert |-> "none"]
             /\ IF v = "raise" THEN Abort("ValidatorError")
                ELSE pc' = "route" /\ UNCHANGED err
    /\ UNCHANGED <<listVars, extentVars, probe, config_file, stac_config, input_keys,
                   idx, collection, collection_already_exists, catalog, item_dicts,
                   local, remote, hist>>

\* lines 508-517: whether convert_to_cog is called
\* (variant: `not is_valid_cog` dropped from the condition of line 508)
NeedsConversion_AlsoValid(is_valid_cog, cfg) == AllowCogConversion(cfg)

NeedsConversion(is_valid_cog, cfg) == ~is_valid_cog /\ AllowCogConversion(cfg)

Route ==
    /\ pc = "route"
    /\ pc' = IF NeedsConversion(gate.is_valid_cog, stac_config)
             THEN "convert_download" ELSE "raster"
    /\ gate' = [gate EXCEPT !.validation = [kind |-> "none"]]
    /\ UNCHANGED <<err, listVars, extentVars, probe, config_file, stac_config,
                   input_keys, idx, collection, collection_already_exists, catalog,
                   item_dicts, local, remote, hist>>

\* lines 339-350: aws s3 cp, then urlretrieve when that fails
ConvertDownload ==
    /\ pc = "convert_download"
    /\ \E primary \in BOOLEAN, fallback \in BOOLEAN :
         IF primary \/ fallback
         THEN /\ gate' = [gate EXCEPT !.convert = "invoked"]
              /\ pc' = "convert_create"
              /\ UNCHANGED err
         ELSE /\ gate' = [gate EXCEPT !.convert = "failed"]
              /\ Abort("DownloadError")
    /\ UNCHANGED <<listVars, extentVars, probe, config_file, stac_config, input_keys,
                   idx, collection, collection_already_exists, catalog, item_dicts,
                   local, remote, hist>>

\* lines 352-356: rio cogeo create
\* (variant: the failure caught by the caller, which goes on to the next key)
ConvertCreate_SkipOnFailure ==
    /\ pc = "convert_create"
    /\ \E ok \in BOOLEAN :
         IF ok
         THEN pc' = "convert_upload" /\ UNCHANGED <<err, idx, gate>>
         ELSE /\ gate' = [gate EXCEPT !.convert = "failed"]
              /\ pc' = LoopFrom(idx + 1, input_keys)
              /\ idx' = idx + 1
              /\ UNCHANGED err
    /\ UNCHANGED <<listVars, extentVars, probe, config_file, stac_config, input_keys,
                   collection, collection_already_exists, catalog, item_dicts,
                   local, remote, hist>>

ConvertCreate ==
    /\ pc = "convert_create"
    /\ \E ok \in BOOLEAN :
         IF ok
         THEN pc' = "convert_upload" /\ UNCHANGED <<err, gate>>
         ELSE gate' = [gate EXCEPT !.convert = "failed"] /\ Abort("ConvertError")
    /\ UNCHANGED <<listVars, extentVars, probe, config_file, stac_config, input_keys,
                   idx, collection, collection_already_exists, catalog, item_dicts,
                   local, remote, hist>>

\* lines 358-366: the COG is uploaded and its URL returned; line 513
ConvertUpload ==
    /\ pc = "convert_upload"
    /\ \E ok \in BOOLEAN :
         IF ok
         THEN /\ hist' = [hist EXCEPT !.cogs = @ \cup {ConvertedUrl(input_keys[idx])}]
              /\ gate' = [gate EXCEPT !.image_url = ConvertedUrl(input_keys[idx]),
                                      !.convert = "done"]
              /\ pc' = "raster"
              /\ UNCHANGED err
         ELSE /\ gate' = [gate EXCEPT !.convert = "failed"]
              /\ Abort("UploadError")
              /\ UNCHANGED hist
    /\ UNCHANGED <<listVars, extentVars, probe, config_file, stac_config, input_keys,
                   idx, collection, collection_already_exists, catalog, item_dicts,
                   local, remote>>

\* the positions of character c in text s
Positions(s, c) == {i \in 1..Len(s) : s[i] = c}
First(I) == CHOOSE i \in I : \A j \in I : i <= j
Final(I) == CHOOSE i \in I : \A j \in I : i >= j

\* os.path.basename(s): what follows the last '/'
Basename(s) ==
    IF Positions(s, "/") = {} THEN s
    ELSE SubSeq(s, Final(Positions(s, "/")) + 1, Len(s))

\* lines 56-79; valid records the gatekeeper's verdict on the asset
CreateItem(cfg, image_id, image_url, bounds, is_valid_cog) ==
    [id |-> image_id,
     bbox |-> bounds,
     datetime |-> cfg.ITEM_TIMESTAMP,
     href |-> image_url,
     metadata |-> FALSE,
     footprint_id |-> NoField,
     valid |-> is_valid_cog]

\* The patterns FILENAME_REGEX is drawn from, c a character that is not
\* special in a pattern: c itself (no group), (?P<footprint>c), and
\* (?P<footprint>c)? whose group takes no part in a match of the empty text.
Regexes == [kind : {"literal", "named", "optional"}, ch : {"a", "_"}]

\* re.search(regex, filename): whether there is a match, whether the pattern
\* has a group named footprint, and what m.group('footprint') is (None for a
\* group that took no part in the match)
ReSearch(regex, filename) ==
    CASE regex.kind = "literal" ->
           [matched |-> Positions(filename, regex.ch) # {}, has_group |-> FALSE,
            group |-> NoneV]
      [] regex.kind = "named" ->
           [matched |-> Positions(filename, regex.ch) # {}, has_group |-> TRUE,
            group |-> Str(<<regex.ch>>)]
      [] OTHER ->
           [matched |-> TRUE, has_group |-> TRUE,
            group |-> IF filename # <<>> /\ filename[1] = regex.ch
                      THEN Str(<<regex.ch>>) ELSE NoneV]

\* lines 445-464; the result is [raised, item]
\* (variant: the IndexError of m.group not caught)
AddFootprintIdToItem_Uncaught(cfg, input_key, item_dict) ==
    IF cfg.FILENAME_REGEX = NoField THEN [raised |-> FALSE, item |-> item_dict]
    ELSE LET m == ReSearch(cfg.FILENAME_REGEX, Basename(input_key))
         IN  IF ~m.matched THEN [raised |-> FALSE, item |-> item_dict]
             ELSE IF ~m.has_group THEN [raised |-> TRUE, item |-> item_dict]
             ELSE [raised |-> FALSE,
                   item |-> [item_dict EXCEPT !.footprint_id = m.group]]

AddFootprintIdToItem(cfg, input_key, item_dict) ==
    IF cfg.FILENAME_REGEX = NoField THEN [raised |-> FALSE, item |-> item_dict]
    ELSE LET m == ReSearch(cfg.FILENAME_REGEX, Basename(input_key))
         IN  IF ~m.matched THEN [raised |-> FALSE, item |-> item_dict]
             ELSE IF ~m.has_group THEN [raised |-> FALSE, item |-> item_dict]
             ELSE [raised |-> FALSE,
                   item |-> [item_dict EXCEPT !.footprint_id = m.group]]

\* lines 519-534: the raster is opened at image_url, the item built and
\* appended; line 536
OpenRasterAndCreateItem ==
    /\ pc = "raster"
    /\ \E ok \in BOOLEAN :
         IF ok
         THEN /\ item_dicts' = Append(item_dicts,
                    AddFootprintIdToItem(stac_config, input_keys[idx],
                        CreateItem(stac_config, input_keys[idx], gate.image_url,
                                   BoundsGeo(input_keys[idx]),
                                   gate.is_valid_cog)).item)
              /\ pc' = IF stac_config.S3_KEY_TO_FGDC_S3_KEY THEN "sidecar" ELSE "extent"
              /\ UNCHANGED err
         ELSE Abort("RasterioIOError") /\ UNCHANGED item_dicts
    /\ UNCHANGED <<listVars, extentVars, probe, config_file, stac_config, input_keys,
                   idx, collection, collection_already_exists, catalog, gate,
                   local, remote, hist>>

\* lines 196-199: every caldate node sets the item's datetime
\* (variant: a configured ITEM_TIMESTAMP is kept)
SidecarDatetime_KeepsConfigured(datetime, caldate) ==
    IF caldate = <<>> \/ datetime # NoneV THEN datetime
    ELSE Dt(caldate[1] * 10 + caldate[2])

SidecarDatetime(datetime, caldate) ==
    IF caldate = <<>> THEN datetime ELSE Dt(caldate[1] * 10 + caldate[2])

\* lines 172-255: the sidecar is downloaded, converted with mp and parsed
\* (each may fail); the item, already in item_dicts, is changed in place
AddFgdcMetadataToItem ==
    /\ pc = "sidecar"
    /\ \E ok \in BOOLEAN :
         IF ok
         THEN /\ item_dicts' =
                    [item_dicts EXCEPT ![Len(item_dicts)] =
                        [@ EXCEPT !.datetime =
                                     SidecarDatetime(@, SidecarCaldate(input_keys[idx])),
                                  !.metadata = TRUE]]
              /\ pc' = "extent"
              /\ UNCHANGED err
         ELSE Abort("SidecarError") /\ UNCHANGED item_dicts
    /\ UNCHANGED <<listVars, extentVars, probe, config_file, stac_config, input_keys,
                   idx, collection, collection_already_exists, catalog, gate,
                   local, remote, hist>>

\* lines 542-547: a datetime becomes its string; None and strings have no
\* strftime and stay
DatetimeToString(v) == IF v.kind = "datetime" THEN Strftime(v) ELSE v

\* lines 539-547
UpdateExtents ==
    /\ pc = "extent"
    /\ LET item == item_dicts[Len(item_dicts)]
           r == UpdateTemporalExtent(temporal_extent, item.datetime)
       IN  /\ spatial_extent' = UpdateSpatialExtent(spatial_extent, item.bbox)
           /\ temporal_extent' = r.extent
           /\ IF r.raised
              THEN Abort("TypeError") /\ UNCHANGED <<item_dicts, idx>>
              ELSE /\ item_dicts' = [item_dicts EXCEPT ![Len(item_dicts)].datetime =
                                        DatetimeToString(@)]
                   /\ idx' = idx + 1
                   /\ pc' = LoopFrom(idx + 1, input_keys)
                   /\ UNCHANGED err
    /\ UNCHANGED <<listVars, probe, config_file, stac_config, input_keys,
                   collection, collection_already_exists, catalog, gate,
                   local, remote, hist>>

SpatialList(e) == <<e.left, e.bottom, e.right, e.top>>

\* lines 549-568: the accumulated extent is written into the configuration
\* and the Collection; strftime of an endpoint that is no datetime raises
\* AttributeError after the spatial extent is written to the configuration
\* (variant: null endpoints written as they are)
WriteBackExtent_NullTolerated ==
    /\ pc = "writeback"
    /\ LET ext == Extent(SpatialList(spatial_extent),
                         <<DatetimeToString(temporal_extent.earliest),
                           DatetimeToString(temporal_extent.latest)>>)
       IN  /\ stac_config' = [stac_config EXCEPT !.extent = ext]
           /\ collection' = [collection EXCEPT !.extent = ext]
           /\ pc' = "save_collection"
           /\ UNCHANGED err
    /\ UNCHANGED <<listVars, extentVars, probe, config_file, input_keys, idx,
                   collection_already_exists, catalog, item_dicts, gate, local,
                   remote, hist>>

WriteBackExtent ==
    /\ pc = "writeback"
    /\ LET sp == SpatialList(spatial_extent)
           old == IF stac_config.extent.kind = "absent" THEN Extent(<<>>, <<>>)
                  ELSE stac_config.extent
       IN  IF /\ temporal_extent.earliest.kind = "datetime"
              /\ temporal_extent.latest.kind = "datetime"
           THEN LET ext == Extent(sp, <<Strftime(temporal_extent.earliest),
                                        Strftime(temporal_extent.latest)>>)
                IN  /\ stac_config' = [stac_config EXCEPT !.extent = ext]
                    /\ collection' = [collection EXCEPT !.extent = ext]
                    /\ pc' = "save_collection"
                    /\ UNCHANGED err
           ELSE /\ stac_config' = [stac_config EXCEPT !.extent = [old EXCEPT !.spatial = sp]]
                /\ collection' = IF collection_already_exists THEN collection
                                 ELSE [collection EXCEPT !.extent = stac_config'.extent]
                /\ Abort("AttributeError")
    /\ UNCHANGED <<listVars, extentVars, probe, config_file, input_keys, idx,
                   collection_already_exists, catalog, item_dicts, gate, local,
                   remote, hist>>

\* lines 570-573: an opened Collection is saved under temp_dir
\* (variant: the save of the opened Collection left to the later steps)
SaveExistingCollection_Deferred ==
    /\ pc = "save_collection"
    /\ pc' = "open_catalog"
    /\ UNCHANGED <<err, listVars, extentVars, probe, config_file, stac_config,
                   input_keys, idx, collection, collection_already_exists, catalog,
                   item_dicts, gate, local, remote, hist>>

SaveExistingCollection ==
    /\ pc = "save_collection"
    /\ IF collection_already_exists
       THEN local' = [local EXCEPT !.collection = collection] /\ Log("save_collection")
       ELSE UNCHANGED <<local, hist>>
    /\ pc' = "open_catalog"
    /\ UNCHANGED <<err, listVars, extentVars, probe, config_file, stac_config,
                   input_keys, idx, collection, collection_already_exists, catalog,
                   item_dicts, gate, remote>>

\* lines 587-591
NewCatalog == [kind |-> "catalog", links |-> {}]

\* lines 575-591: as for the Collection, any failure of the open creates
OpenCatalog ==
    /\ pc = "open_catalog"
    /\ \E opened \in (IF remote.catalog.kind = "absent" THEN {FALSE} ELSE BOOLEAN) :
         /\ catalog' = IF opened THEN remote.catalog ELSE NewCatalog
         /\ Log(IF opened THEN "open_catalog" ELSE "create_catalog")
    /\ pc' = "save_catalog"
    /\ UNCHANGED <<err, listVars, extentVars, probe, config_file, stac_config,
                   input_keys, idx, collection, collection_already_exists,
                   item_dicts, gate, local, remote>>

\* line 593
SaveCatalog ==
    /\ pc = "save_catalog"
    /\ local' = [local EXCEPT !.catalog = catalog]
    /\ Log("save_catalog")
    /\ pc' = "link"
    /\ UNCHANGED <<err, listVars, extentVars, probe, config_file, stac_config,
                   input_keys, idx, collection, collection_already_exists, catalog,
                   item_dicts, gate, remote>>

\* Catalog.add_catalog: the child link is added to the catalog unless it is
\* there, the catalog saved, the child's hierarchy links replaced and the
\* child saved under the catalog
AddCatalogLinks(links) == links \cup {ChildLink}

\* lines 595-598
LinkCollection ==
    /\ pc = "link"
    /\ IF ~collection_already_exists
       THEN /\ catalog' = [catalog EXCEPT !.links = AddCatalogLinks(@)]
            /\ collection' = [collection EXCEPT !.links = {<<"root", 0>>, <<"parent", 0>>}]
            /\ local' = [local EXCEPT !.catalog = catalog', !.collection = collection']
            /\ Log("add_catalog")
       ELSE UNCHANGED <<catalog, collection, local, hist>>
    /\ pc' = "add_items"
    /\ UNCHANGED <<err, listVars, extentVars, probe, config_file, stac_config,
                   input_keys, idx, collection_already_exists, item_dicts, gate,
                   remote>>

\* Collection.add_item for every item, in order: the item is linked from the
\* Collection and its document saved
ItemLinks(items) == {<<"item", items[i].id>> : i \in 1..Len(items)}

\* lines 600-601
AddItems ==
    /\ pc = "add_items"
    /\ collection' = [collection EXCEPT !.links = @ \cup ItemLinks(item_dicts)]
    /\ local' = [local EXCEPT !.collection = collection',
                              !.items = @ \o [i \in 1..Len(item_dicts) |->
                                                         item_dicts[i].id]]
    /\ pc' = "lint_local"
    /\ UNCHANGED <<err, listVars, extentVars, probe, config_file, stac_config,
                   input_keys, idx, collection_already_exists, catalog, item_dicts,
                   gate, remote, hist>>

\* lines 603-604, 273-285
LintStacLocal ==
    /\ pc = "lint_local"
    /\ IF stac_config.DISABLE_STAC_LINT
       THEN pc' = "publish" /\ UNCHANGED <<err, hist>>
       ELSE \E ok \in BOOLEAN :
              /\ Log("lint_local")
              /\ IF ok THEN pc' = "publish" /\ UNCHANGED err
                 ELSE Abort("LintError")
    /\ UNCHANGED <<listVars, extentVars, probe, config_file, stac_config,
                   input_keys, idx, collection, collection_already_exists, catalog,
                   item_dicts, gate, local, remote>>

\* lines 93-106: every document under temp_dir replaces its copy in the bucket
Upload(store, tree) ==
    [store EXCEPT !.catalog = IF tree.catalog.kind = "absent" THEN @ ELSE tree.catalog,
                  !.collection = IF tree.collection.kind = "absent" THEN @
                                 ELSE tree.collection]

\* line 607
PublishToS3 ==
    /\ pc = "publish"
    /\ \E ok \in BOOLEAN :
         IF ok
         THEN /\ remote' = Upload(remote, local)
              /\ Log("publish")
              /\ pc' = "lint_uploaded"
              /\ UNCHANGED err
         ELSE Abort("S3UploadFailedError") /\ UNCHANGED <<remote, hist>>
    /\ UNCHANGED <<listVars, extentVars, probe, config_file, stac_config,
                   input_keys, idx, collection, collection_already_exists, catalog,
                   item_dicts, gate, local>>

\* lines 609-613, 288-295
\* (variant: the test of DISABLE_STAC_LINT at line 609 left out)
LintUploadedStac_AlwaysRuns ==
    /\ pc = "lint_uploaded"
    /\ \E ok \in BOOLEAN :
         /\ Log("lint_uploaded")
         /\ IF ok THEN pc' = "done" /\ UNCHANGED err
            ELSE Abort("LintError")
    /\ UNCHANGED <<listVars, extentVars, probe, config_file, stac_config,
                   input_keys, idx, collection, collection_already_exists, catalog,
                   item_dicts, gate, local, remote>>

LintUploadedStac ==
    /\ pc = "lint_uploaded"
    /\ IF stac_config.DISABLE_STAC_LINT
       THEN pc' = "done" /\ UNCHANGED <<err, hist>>
       ELSE \E ok \in BOOLEAN :
              /\ Log("lint_uploaded")
              /\ IF ok THEN pc' = "done" /\ UNCHANGED err
                 ELSE Abort("LintError")
    /\ UNCHANGED <<listVars, extentVars, probe, config_file, stac_config,
                   input_keys, idx, collection, collection_already_exists, catalog,
                   item_dicts, gate, local, remote>>

Init ==
    /\ pc = "idle"
    /\ err = None
    /\ bucket = {}
    /\ response = [Contents |-> NoContents, IsTruncated |-> FALSE, NextMarker |-> FALSE]
    /\ all_objects = <<>>
    /\ requests = <<>>
    /\ served = <<>>
    /\ all_keys = None
    /\ spatial_extent = EmptySpatialExtent
    /\ temporal_extent = EmptyTemporalExtent
    /\ probe = None
    /\ config_file \in Configs
    /\ stac_config = config_file
    /\ input_keys = <<>>
    /\ idx = 0
    /\ collection = NoDoc
    /\ collection_already_exists = FALSE
    /\ catalog = NoDoc
    /\ item_dicts = <<>>
    /\ gate = NoGate
    /\ local = EmptyTree
    /\ remote = EmptyStore
    /\ hist = NoHistory

Next ==
    \/ StartRun
    \/ ListFirst
    \/ ListNextMarkerFail
    \/ ListNextPage
    \/ ListReturn
    \/ FilterKeys
    \/ OpenCollection
    \/ ValidateAsset
    \/ Route
    \/ ConvertDownload
    \/ ConvertCreate
    \/ ConvertUpload
    \/ OpenRasterAndCreateItem
    \/ AddFgdcMetadataToItem
    \/ UpdateExtents
    \/ WriteBackExtent
    \/ SaveExistingCollection
    \/ OpenCatalog
    \/ SaveCatalog
    \/ LinkCollection
    \/ AddItems
    \/ LintStacLocal
    \/ PublishToS3
    \/ LintUploadedStac

Spec == Init /\ [][Next]_vars

(***************************************************************************)
(* Properties of the pipeline.                                             *)
(***************************************************************************)
ConversionErrors == {"DownloadError", "ConvertError", "UploadError"}

\* nothing of the run has been built, saved or published
NothingProcessed ==
    /\ input_keys = <<>>
    /\ item_dicts = <<>>
    /\ gate = NoGate
    /\ idx = 0
    /\ local = EmptyTree
    /\ remote = hist.before
    /\ hist.log = <<>>

\* the run stopped in get_s3_listing on the failed assert
ListerFailedFatally ==
    /\ pc = "aborted"
    /\ err = "AssertionError"
    /\ all_keys = None
    /\ NothingProcessed

\* C3 (as amended): a page response that is truncated and contains
\* NextMarker is the last one received: the lister fails on it with
\* AssertionError, the run aborts, no key list is returned and no asset is
\* processed.  (A NextMarker on the final, not truncated page is not looked
\* at.)
C3_TruncatedNextMarkerIsFatal ==
    \A i \in 1..Len(served) :
        served[i].IsTruncated /\ served[i].NextMarker =>
            /\ i = Len(served)
            /\ \/ pc = "list_loop" /\ response = served[i]
               \/ ListerFailedFatally

\* C3 (as claimed): any page response that contains NextMarker makes the
\* lister fail fatally.
C3_AnyNextMarkerIsFatal ==
    \A i \in 1..Len(served) :
        served[i].NextMarker =>
            /\ i = Len(served)
            /\ \/ pc = "list_loop" /\ response = served[i]
               \/ pc = "aborted" /\ all_keys = None /\ NothingProcessed

C3_Witness ==
    /\ ListerFailedFatally
    /\ Len(served) = 2
    /\ served[2].IsTruncated
    /\ served[2].NextMarker

\* the item's 'visual' href is what the gatekeeper's outcome determines
HrefFollowsOutcome(item, cfg) ==
    item.href = IF ~item.valid /\ cfg.ALLOW_COG_CONVERSION = "true"
                THEN ConvertedUrl(item.id)
                ELSE OriginalUrl(item.id)

\* C4: every cataloged item's 'visual' href is the original URL when the
\* asset is a valid COG, the derived _COG URL in the output bucket when it
\* is not valid and ALLOW_COG_CONVERSION is true, and the original URL when
\* it is not valid and ALLOW_COG_CONVERSION is false or absent;
\* convert_to_cog is invoked only for an asset that is not valid, and only
\* when ALLOW_COG_CONVERSION is true.
C4_HrefFollowsGatekeeper ==
    /\ \A i \in 1..Len(item_dicts) : HrefFollowsOutcome(item_dicts[i], stac_config)
    /\ gate.convert # "none" =>
          ~gate.is_valid_cog /\ stac_config.ALLOW_COG_CONVERSION = "true"
    /\ \A i \in 1..Len(item_dicts) :
          item_dicts[i].href \in hist.cogs <=>
             ~item_dicts[i].valid /\ stac_config.ALLOW_COG_CONVERSION = "true"

C4_Witness ==
    /\ pc = "done"
    /\ stac_config.ALLOW_COG_CONVERSION = "absent"
    /\ Len(item_dicts) = 2
    /\ ~item_dicts[1].valid
    /\ item_dicts[1].href = OriginalUrl(1)
    /\ item_dicts[2].valid

\* C5: validate_cog answers Valid exactly when the validator returns with
\* no error, whatever warnings it returns; it answers NeedsConversion when
\* the validator returns an error or raises
\* ValidateCloudOptimizedGeoTIFFException, and then the run goes on to the
\* routing step, not aborted.
C5_ValidIffNoErrors ==
    /\ gate.validation.kind = "returned" =>
          /\ gate.is_valid_cog <=> gate.validation.errors = 0
          /\ pc = "route" /\ err = None
    /\ gate.validation.kind = "cog_exception" =>
          /\ ~gate.is_valid_cog
          /\ pc = "route" /\ err = None
    /\ pc = "route" => gate.validation.kind \in {"returned", "cog_exception"}

C5_Witness ==
    /\ pc = "route"
    /\ gate.validation.kind = "returned"
    /\ gate.validation.warnings = 1
    /\ gate.validation.errors = 0
    /\ gate.is_valid_cog
    /\ idx = 2

\* C6: when convert_to_cog fails at its download step (aws s3 cp and the
\* urlretrieve fallback both fail), its convert step or its upload step,
\* the run is aborted with that failure: no item exists for the asset, no
\* document has been saved or published, and the aborted run takes no
\* further step (the next step is the start of another run).
C6_ConversionFailureAborts ==
    /\ [](gate.convert = "failed" =>
            /\ pc = "aborted"
            /\ err \in ConversionErrors
            /\ Len(item_dicts) = idx - 1
            /\ \A i \in 1..Len(item_dicts) : item_dicts[i].id # input_keys[idx]
            /\ local = EmptyTree
            /\ remote = hist.before
            /\ hist.log = <<>>)
    /\ [](err \in ConversionErrors => gate.convert = "failed")
    /\ [][pc = "aborted" => pc' = "list" /\ item_dicts' = <<>>]_vars

C6_Witness ==
    /\ pc = "aborted"
    /\ err = "UploadError"
    /\ idx = 1
    /\ Len(input_keys) = 2

\* the instant a timestamp of Timestamps denotes
InstantOf(v) == IF v.kind = "datetime" THEN v.t ELSE v.text[1] * 10 + v.text[2]

\* the first extent holds the second
ExtentContains(new, old) ==
    /\ new.spatial[1] <= old.spatial[1]
    /\ new.spatial[2] <= old.spatial[2]
    /\ new.spatial[3] >= old.spatial[3]
    /\ new.spatial[4] >= old.spatial[4]
    /\ InstantOf(new.temporal[1]) <= InstantOf(old.temporal[1])
    /\ InstantOf(new.temporal[2]) >= InstantOf(old.temporal[2])

\* C9: the extent a run records for a Collection that was already recorded
\* holds the extent recorded before: over any sequence of runs the recorded
\* extent only grows.
C9_RecordedExtentOnlyGrows ==
    [][remote.collection.kind = "collection" =>
          /\ remote'.collection.kind = "collection"
          /\ ExtentContains(remote'.collection.extent, remote.collection.extent)]_vars

NumChildLinks(doc) ==
    IF doc.kind = "absent" THEN 0 ELSE Cardinality({l \in doc.links : l[1] = "child"})

\* C10: a run that follows a completed run, on the same bucket and with the
\* Collection that run published (opened by this run), leaves the published
\* extent as it was and the root Catalog with as many links to the
\* Collection as before.
C10_RerunChangesNothing ==
    (pc = "done" /\ hist.rerun /\ collection_already_exists) =>
        /\ remote.collection.extent = hist.before.collection.extent
        /\ NumChildLinks(remote.catalog) = NumChildLinks(hist.before.catalog)

\* C11: after any sequence of runs the published root Catalog holds exactly
\* one link to the Collection; a run that opened the Collection does not
\* perform add_catalog, a run that created it performs it exactly once.
C11_LinkedExactlyOnce ==
    /\ remote.catalog.kind = "catalog" => NumChildLinks(remote.catalog) = 1
    /\ collection_already_exists => \A i \in 1..Len(hist.log) : hist.log[i] # "add_catalog"
    /\ Cardinality({i \in 1..Len(hist.log) : hist.log[i] = "add_catalog"}) <= 1

\* the saves of the run so far, in order, of the two documents
SavesInOrder == SelectSeq(hist.log, LAMBDA e : e \in {"save_catalog", "save_collection", "add_catalog"})

\* C12 (as amended): a run that created the Collection saves the root
\* Catalog first (catalog.save_as) and the Collection after it (by
\* add_catalog); a run that opened an existing Collection saves the
\* Collection first (collection.save_as) and the root Catalog after it.
C12_SaveOrderDependsOnExistence ==
    /\ SavesInOrder # <<>> =>
          SavesInOrder[1] = IF collection_already_exists THEN "save_collection"
                            ELSE "save_catalog"
    /\ Len(SavesInOrder) >= 2 =>
          SavesInOrder[2] = IF collection_already_exists THEN "save_catalog"
                            ELSE "add_catalog"
    /\ Len(SavesInOrder) <= 2
    /\ local.catalog.kind # "absent" /\ local.collection.kind = "absent" =>
          ~collection_already_exists
    /\ local.collection.kind # "absent" /\ local.catalog.kind = "absent" =>
          collection_already_exists

\* C12 (as claimed): in every run the root Catalog is saved to the working
\* tree before the Collection is, whether the Collection existed or not.
C12_CatalogSavedFirst ==
    local.collection.kind # "absent" => local.catalog.kind # "absent"

C12_Witness ==
    /\ pc = "link"
    /\ collection_already_exists
    /\ SavesInOrder = <<"save_collection", "save_catalog">>
    /\ Len(item_dicts) = 1

\* whether the run has logged the event
Logged(event) == \E i \in 1..Len(hist.log) : hist.log[i] = event

\* C19: a failed open of the Collection or of the root Catalog never ends
\* the run: the run goes on with a new document built from the
\* configuration; a document that was opened is the one the run works on,
\* and what the run publishes keeps the links the opened document held.
C19_OpenOrCreate ==
    /\ err # "STACError"
    /\ pc \in {"validate", "route", "convert_download", "convert_create",
               "convert_upload", "raster", "sidecar", "extent", "writeback"} =>
          collection = IF collection_already_exists THEN remote.collection
                       ELSE NewCollection(stac_config)
    /\ collection_already_exists => remote.collection.kind = "collection"
    /\ pc = "save_catalog" =>
          /\ Logged("open_catalog") # Logged("create_catalog")
          /\ catalog = IF Logged("open_catalog") THEN remote.catalog ELSE NewCatalog
    /\ Logged("open_catalog") => hist.before.catalog.kind = "catalog"
    /\ pc = "done" =>
          /\ collection_already_exists =>
                hist.before.collection.links \subseteq remote.collection.links
          /\ Logged("open_catalog") =>
                hist.before.catalog.links \subseteq remote.catalog.links
          /\ ItemLinks(item_dicts) \subseteq remote.collection.links

C19_Witness ==
    /\ pc = "done"
    /\ hist.before.collection.kind = "collection"
    /\ ~collection_already_exists
    /\ Logged("open_catalog")
    /\ item_dicts # <<>>

\* the ids of the items built so far, in the order they were built
ItemIds == [i \in 1..Len(item_dicts) |-> item_dicts[i].id]

\* C17: once every asset is processed there is exactly one item per listed
\* key ending with COG_SUFFIX and none for any other key, in the order of
\* the listing; the items are added to the Collection in that order, and
\* none is added while assets are still being processed.
C17_OneItemPerSuffixKeyInOrder ==
    /\ pc \in {"writeback", "save_collection", "open_catalog", "save_catalog",
               "link", "add_items", "lint_local", "publish", "lint_uploaded",
               "done"} =>
          /\ {ItemIds[i] : i \in 1..Len(ItemIds)} =
                {k \in bucket : EndsWithCogSuffix(k)}
          /\ Len(ItemIds) = Cardinality({k \in bucket : EndsWithCogSuffix(k)})
          /\ \A i, j \in 1..Len(ItemIds) :
                i < j => \E a, b \in 1..Len(all_keys) :
                            a < b /\ all_keys[a] = ItemIds[i] /\ all_keys[b] = ItemIds[j]
    /\ pc \in {"lint_local", "publish", "lint_uploaded", "done"} =>
          local.items = ItemIds
    /\ pc \notin {"lint_local", "publish", "lint_uploaded", "done", "aborted"} =>
          local.items = <<>>

C17_Witness ==
    /\ pc = "done"
    /\ bucket = {1, 2, 3}
    /\ local.items = <<1, 2>>

\* C16: a sidecar without an acquisition-date node never aborts the item
\* or the run: the item keeps the datetime it had (ITEM_TIMESTAMP or null),
\* still gets the metadata asset, stays in the list of built items, and the
\* run does not fail in the extent update or in the extent write-back.
C16_MissingCaldateNeverAborts ==
    \A i \in 1..Len(item_dicts) :
       item_dicts[i].metadata /\ SidecarCaldate(item_dicts[i].id) = <<>> =>
          /\ DatetimeToString(item_dicts[i].datetime) =
                DatetimeToString(stac_config.ITEM_TIMESTAMP)
          /\ ~(pc = "aborted" /\ err \in {"TypeError", "AttributeError"})

(***************************************************************************)
(* The lister on its own, for every bucket content.                        *)
(***************************************************************************)
NoResponse == [Contents |-> NoContents, IsTruncated |-> FALSE, NextMarker |-> FALSE]

ListIdle ==
    /\ response = NoResponse
    /\ all_objects = <<>>
    /\ requests = <<>>
    /\ served = <<>>
    /\ all_keys = None

ExtentIdle ==
    /\ spatial_extent = EmptySpatialExtent
    /\ temporal_extent = EmptyTemporalExtent

InitListing ==
    /\ pc = "list"
    /\ err = None
    /\ bucket \in SUBSET AllKeys
    /\ ListIdle
    /\ ExtentIdle
    /\ probe = None
    /\ RunIdle

SpecListing == InitListing /\ [][GetS3Listing]_vars

\* a response the lister accepts and continues from
WellFormed(resp) ==
    /\ resp.Contents # NoContents
    /\ resp.IsTruncated => ~resp.NextMarker

C2_MarkerIsLastKey ==
    /\ Len(requests) = Len(served)
    /\ requests # <<>> => requests[1] = NoMarker
    /\ \A i \in 2..Len(requests) :
          /\ served[i-1].IsTruncated
          /\ ~served[i-1].NextMarker
          /\ requests[i] = Last(served[i-1].Contents)
    /\ \A i \in 1..Len(served) :
          ~served[i].IsTruncated => i = Len(served)

C2_Witness ==
    /\ Len(requests) = 3
    /\ Len(served[1].Contents) = 2
    /\ Len(served[2].Contents) = 2
    /\ requests[3] = 4
    /\ pc = "listed"

(***************************************************************************)
(* update_spatial_extent on its own: one starting extent and two bounds,   *)
(* merged in both orders (spatial_extent takes B1 then B2, probe.other     *)
(* takes B2 then B1).                                                      *)
(***************************************************************************)
Coords == 0..MaxCoord
BoundsSet == Coords \X Coords \X Coords \X Coords
StartExtents ==
    {EmptySpatialExtent} \cup
    {[left |-> b[1], bottom |-> b[2], right |-> b[3], top |-> b[4]] : b \in BoundsSet}

InitSpatial ==
    /\ pc = "merge_first"
    /\ err = None
    /\ bucket = {}
    /\ ListIdle
    /\ spatial_extent \in StartExtents
    /\ temporal_extent = EmptyTemporalExtent
    /\ \E b1 \in BoundsSet, b2 \in BoundsSet :
         probe = [start |-> spatial_extent, b1 |-> b1, b2 |-> b2,
                  other |-> spatial_extent]
    /\ RunIdle

MergeFirst ==
    /\ pc = "merge_first"
    /\ spatial_extent' = UpdateSpatialExtent(spatial_extent, probe.b1)
    /\ probe' = [probe EXCEPT !.other = UpdateSpatialExtent(probe.other, probe.b2)]
    /\ pc' = "merge_second"
    /\ UNCHANGED <<err, listVars, temporal_extent, runVars>>

MergeSecond ==
    /\ pc = "merge_second"
    /\ spatial_extent' = UpdateSpatialExtent(spatial_extent, probe.b2)
    /\ probe' = [probe EXCEPT !.other = UpdateSpatialExtent(probe.other, probe.b1)]
    /\ pc' = "merged"
    /\ UNCHANGED <<err, listVars, temporal_extent, runVars>>

SpecSpatial == InitSpatial /\ [][MergeFirst \/ MergeSecond]_vars

Min(a, b) == IF a <= b THEN a ELSE b
Max(a, b) == IF a >= b THEN a ELSE b

\* the extent holds the bounds
Holds(extent, b) ==
    /\ extent.left <= b[1]
    /\ extent.bottom <= b[2]
    /\ extent.right >= b[3]
    /\ extent.top >= b[4]

\* the extent is the field-wise min/max of a previous extent and bounds
IsMinMaxOf(extent, prev, b) ==
    /\ extent.left = Min(prev.left, b[1])
    /\ extent.bottom = Min(prev.bottom, b[2])
    /\ extent.right = Max(prev.right, b[3])
    /\ extent.top = Max(prev.top, b[4])

\* C7: update_spatial_extent is commutative and monotonic: from every
\* starting extent, merging B1 then B2 gives the extent that merging B2 then
\* B1 gives, the merged extent holds both inputs, and after each merge every
\* field is the min (left, bottom) or max (right, top) of its previous value
\* and the new value.
C7_SpatialMergeCommutes ==
    /\ pc = "merge_second" =>
          /\ IsMinMaxOf(spatial_extent, probe.start, probe.b1)
          /\ IsMinMaxOf(probe.other, probe.start, probe.b2)
          /\ Holds(spatial_extent, probe.b1)
    /\ pc = "merged" =>
          /\ spatial_extent = probe.other
          /\ Holds(spatial_extent, probe.b1)
          /\ Holds(spatial_extent, probe.b2)
          /\ IsMinMaxOf(spatial_extent,
                        UpdateSpatialExtent(probe.start, probe.b1), probe.b2)

C7_Witness ==
    /\ pc = "merged"
    /\ probe.b1 # probe.b2
    /\ probe.start # EmptySpatialExtent
    /\ spatial_extent # probe.start
    /\ spatial_extent # UpdateSpatialExtent(probe.start, probe.b1)

\* left <= right and bottom <= top, of an extent and of bounds
Ordered(extent) == extent.left <= extent.right /\ extent.bottom <= extent.top
OrderedBounds(b) == b[1] <= b[3] /\ b[2] <= b[4]

\* C21 (as stated): with every merged bounds ordered and a seed that is the
\* empty extent or an ordered one, the running extent is ordered in every
\* state, from the seed on.
C21_OrderedFromSeeding ==
    (/\ OrderedBounds(probe.b1)
     /\ OrderedBounds(probe.b2)
     /\ (probe.start = EmptySpatialExtent \/ Ordered(probe.start))) =>
        Ordered(spatial_extent)

\* C21 (as amended): with every merged bounds ordered, the running extent
\* is ordered in every state after the first merge, whatever the seed; before
\* the first merge it is ordered exactly when the seed is, and the empty seed
\* is not.
C21_OrderedAfterFirstMerge ==
    (OrderedBounds(probe.b1) /\ OrderedBounds(probe.b2)) =>
        /\ pc \in {"merge_second", "merged"} =>
              Ordered(spatial_extent) /\ Ordered(probe.other)
        /\ pc = "merge_first" =>
              /\ spatial_extent = probe.start
              /\ probe.start = EmptySpatialExtent => ~Ordered(spatial_extent)

C21_Witness ==
    /\ pc = "merged"
    /\ probe.start = EmptySpatialExtent
    /\ OrderedBounds(probe.b1)
    /\ OrderedBounds(probe.b2)
    /\ probe.b1 # probe.b2
    /\ spatial_extent.left < spatial_extent.right

(***************************************************************************)
(* update_temporal_extent on its own: timestamps merged one after another  *)
(* from the null/null extent, each a string in STAC_DATE_FORMAT or a       *)
(* native datetime; probe is the sequence of the values merged.            *)
(***************************************************************************)
Instants == 0..MaxTime
Timestamps == {Dt(n) : n \in Instants} \cup {Strftime(Dt(n)) : n \in Instants}


InitTemporal ==
    /\ pc = "merge_time"
    /\ err = None
    /\ bucket = {}
    /\ ListIdle
    /\ ExtentIdle
    /\ probe = <<>>
    /\ RunIdle

MergeTimestamp ==
    /\ pc = "merge_time"
    /\ Len(probe) < MaxMerges
    /\ \E v \in Timestamps :
         LET r == UpdateTemporalExtent(temporal_extent, v)
         IN  /\ temporal_extent' = r.extent
             /\ probe' = Append(probe, v)
             /\ IF r.raised
                THEN pc' = "aborted" /\ err' = "TypeError"
                ELSE UNCHANGED <<pc, err>>
    /\ UNCHANGED <<listVars, spatial_extent, runVars>>

SpecTemporal == InitTemporal /\ [][MergeTimestamp]_vars

\* C8: after merging any sequence of timestamps from the null/null extent,
\* each given as a STAC_DATE_FORMAT string or as a native datetime, no merge
\* has raised, earliest and latest are native datetimes, earliest <= every
\* merged timestamp <= latest, earliest and latest are each one of the merged
\* timestamps, and after the first merge both are the first timestamp.
C8_TemporalExtentBounds ==
    /\ pc # "aborted"
    /\ probe = <<>> => temporal_extent = EmptyTemporalExtent
    /\ probe # <<>> =>
          /\ temporal_extent.earliest.kind = "datetime"
          /\ temporal_extent.latest.kind = "datetime"
          /\ \A i \in 1..Len(probe) :
                /\ temporal_extent.earliest.t <= InstantOf(probe[i])
                /\ InstantOf(probe[i]) <= temporal_extent.latest.t
          /\ \E i \in 1..Len(probe) :
                temporal_extent.earliest.t = InstantOf(probe[i])
          /\ \E i \in 1..Len(probe) :
                temporal_extent.latest.t = InstantOf(probe[i])
    /\ Len(probe) = 1 =>
          /\ temporal_extent.earliest.t = InstantOf(probe[1])
          /\ temporal_extent.latest.t = InstantOf(probe[1])

C8_Witness ==
    /\ Len(probe) = 3
    /\ probe[1].kind = "str"
    /\ probe[2].kind = "datetime"
    /\ temporal_extent.earliest.t < InstantOf(probe[1])
    /\ InstantOf(probe[1]) < temporal_extent.latest.t

(***************************************************************************)
(* The item id rules on their own (lines 23-39, 525).  A key is text: a    *)
(* sequence of characters.  Two different keys of one listing, both ending *)
(* with COG_SUFFIX (here their common last character), are given to the    *)
(* configured rule.                                                        *)
(***************************************************************************)
Chars == {"a", "/", "_", "."}
KeyTexts == UNION {[1..n -> Chars] : n \in 1..MaxKeyLen}

\* s.split(c)[0]: what precedes the first c
SplitFirst(s, c) ==
    IF Positions(s, c) = {} THEN s
    ELSE SubSeq(s, 1, First(Positions(s, c)) - 1)

\* s.split('/')[-2]: the component before the last one (there is none, and
\* the index raises IndexError, when s has no '/')
SplitSecondLast(s) ==
    LET last == Final(Positions(s, "/"))
        before == {i \in Positions(s, "/") : i < last}
        from == IF before = {} THEN 1 ELSE Final(before) + 1
    IN  SubSeq(s, from, last - 1)

\* lines 23-29
GenericImageIdFunction(input_key) ==
    [raised |-> FALSE, id |-> SplitFirst(Basename(input_key), "_")]

\* lines 32-39
NaipImageIdFunction(input_key) ==
    IF Positions(input_key, "/") = {}
    THEN [raised |-> TRUE, id |-> <<>>]
    ELSE [raised |-> FALSE,
          id |-> SplitSecondLast(input_key) \o <<"/">>
                 \o SplitFirst(Basename(input_key), ".")]

IdRules == {"GENERIC_IMAGE_ID_FUNCTION", "NAIP_IMAGE_ID_FUNCTION"}

\* lines 51-53, 525: config_to_function_map[stac_config['S3_KEY_TO_IMAGE_ID']]
ImageId(rule, input_key) ==
    IF rule = "NAIP_IMAGE_ID_FUNCTION" THEN NaipImageIdFunction(input_key)
    ELSE GenericImageIdFunction(input_key)

InitIds ==
    /\ pc = "derive_ids"
    /\ err = None
    /\ bucket = {}
    /\ ListIdle
    /\ ExtentIdle
    /\ \E rule \in IdRules, k1 \in KeyTexts, k2 \in KeyTexts :
         /\ k1 # k2
         /\ Last(k1) = Last(k2)
         /\ probe = [rule |-> rule, keys |-> <<k1, k2>>, ids |-> <<>>]
    /\ RunIdle

\* line 525, for the two keys in turn
DeriveIds ==
    /\ pc = "derive_ids"
    /\ probe' = [probe EXCEPT !.ids = <<ImageId(probe.rule, probe.keys[1]),
                                        ImageId(probe.rule, probe.keys[2])>>]
    /\ IF \E i \in 1..2 : probe'.ids[i].raised
       THEN pc' = "aborted" /\ err' = "IndexError"
       ELSE pc' = "ids_derived" /\ UNCHANGED err
    /\ UNCHANGED <<listVars, extentVars, runVars>>

SpecIds == InitIds /\ [][DeriveIds]_vars

\* C13: for each id rule, two different asset keys processed in a run give
\* items with different ids.
C13_DistinctKeysDistinctIds ==
    pc = "ids_derived" => probe.ids[1].id # probe.ids[2].id

(***************************************************************************)
(* add_footprint_id_to_item on its own (lines 445-464): one item, built    *)
(* for a key, under a configuration with or without FILENAME_REGEX.        *)
(***************************************************************************)
FootprintConfigs ==
    [ALLOW_COG_CONVERSION : {"absent"},
     ITEM_TIMESTAMP : {NoneV, Strftime(Dt(21))},
     S3_KEY_TO_FGDC_S3_KEY : {FALSE},
     DISABLE_STAC_LINT : {FALSE},
     FILENAME_REGEX : {NoField} \cup Regexes,
     extent : {NoExtent}]

InitFootprint ==
    /\ pc = "footprint"
    /\ err = None
    /\ bucket = {}
    /\ ListIdle
    /\ ExtentIdle
    /\ \E cfg \in FootprintConfigs, key \in KeyTexts :
         probe = [cfg |-> cfg, input_key |-> key,
                  before |-> CreateItem(cfg, GenericImageIdFunction(key).id,
                                        OriginalUrl(key), <<0, 0, 1, 1>>, TRUE)]
    /\ RunIdle

\* lines 532-534
AddFootprint ==
    /\ pc = "footprint"
    /\ LET r == AddFootprintIdToItem(probe.cfg, probe.input_key, probe.before)
       IN  IF r.raised
           THEN pc' = "aborted" /\ err' = "IndexError" /\ UNCHANGED item_dicts
           ELSE /\ pc' = "footprint_done"
                /\ item_dicts' = <<r.item>>
                /\ UNCHANGED err
    /\ UNCHANGED <<listVars, extentVars, probe, config_file, stac_config,
                   input_keys, idx, collection, collection_already_exists,
                   catalog, gate, local, remote, hist>>

SpecFootprint == InitFootprint /\ [][AddFootprint]_vars

\* the character occurs in the text
Occurs(c, txt) == \E i \in 1..Len(txt) : txt[i] = c

\* C14: add_footprint_id_to_item never raises; the item is left without
\* footprint_id when FILENAME_REGEX is not configured, when it does not
\* match the key's filename, or when it matches but has no group named
\* footprint; when it matches and has the group, footprint_id is what the
\* group captured (None when the group took no part in the match); every
\* other field of the item is as it was.
C14_FootprintNeverAborts ==
    /\ pc # "aborted"
    /\ pc = "footprint_done" =>
          LET regex == probe.cfg.FILENAME_REGEX
              filename == Basename(probe.input_key)
              item == item_dicts[1]
          IN  /\ [item EXCEPT !.footprint_id = NoField] = probe.before
              /\ regex = NoField => item.footprint_id = NoField
              /\ regex # NoField =>
                    /\ regex.kind = "literal" => item.footprint_id = NoField
                    /\ regex.kind = "named" =>
                          item.footprint_id =
                             IF Occurs(regex.ch, filename) THEN Str(<<regex.ch>>)
                             ELSE NoField
                    /\ regex.kind = "optional" =>
                          item.footprint_id =
                             IF Len(filename) > 0 /\ filename[1] = regex.ch
                             THEN Str(<<regex.ch>>) ELSE NoneV

C14_Witness ==
    /\ pc = "footprint_done"
    /\ probe.cfg.FILENAME_REGEX # NoField
    /\ probe.cfg.FILENAME_REGEX.kind = "literal"
    /\ Occurs(probe.cfg.FILENAME_REGEX.ch, Basename(probe.input_key))
    /\ Occurs("/", probe.input_key)
    /\ item_dicts[1].footprint_id = NoField

(***************************************************************************)
(* The schema lint on its own (lines 258-295): the validator's verdicts on *)
(* up to MaxDocs documents, linted file by file before the upload (one     *)
(* validator output per file) or all at once after it (one output that     *)
(* follows the links).                                                     *)
(***************************************************************************)
MaxDocs == 3

Verdicts == {"ok", "e1", "e2"}

\* one entry of the validator's output for document path
LintResult(path, verdict) ==
    [path |-> path, valid_stac |-> verdict = "ok",
     error_message |-> IF verdict = "ok" THEN "" ELSE verdict]

\* lines 266-270: raises for the first entry that is not valid
AssertValidStacLint(output) ==
    LET invalid == {i \in 1..Len(output) : ~output[i].valid_stac}
    IN  IF invalid = {} THEN [raised |-> FALSE, failures |-> {}]
        ELSE LET i == First(invalid)
             IN  [raised |-> TRUE,
                  failures |-> {[path |-> output[i].path,
                                 error_message |-> output[i].error_message]}]

\* the validator outputs of one lint: lint_stac_local (277-285) runs the
\* validator once per json file, lint_uploaded_stac (290-295) once with --follow
ValidatorOutputs(phase, verdicts) ==
    IF phase = "local"
    THEN [i \in 1..Len(verdicts) |-> <<LintResult(i, verdicts[i])>>]
    ELSE <<[i \in 1..Len(verdicts) |-> LintResult(i, verdicts[i])]>>

InitLint ==
    /\ pc = "lint"
    /\ err = None
    /\ bucket = {}
    /\ ListIdle
    /\ ExtentIdle
    /\ \E phase \in {"local", "uploaded"}, n \in 1..MaxDocs :
         \E verdicts \in [1..n -> Verdicts] :
            probe = [phase |-> phase, verdicts |-> verdicts,
                     outputs |-> ValidatorOutputs(phase, verdicts), checked |-> 0]
    /\ RunIdle

\* lines 279-285 (one file) and 290-295
LintOutput ==
    /\ pc = "lint"
    /\ probe.checked < Len(probe.outputs)
    /\ LET r == AssertValidStacLint(probe.outputs[probe.checked + 1])
       IN  IF r.raised
           THEN pc' = "aborted" /\ err' = r.failures /\ UNCHANGED probe
           ELSE /\ probe' = [probe EXCEPT !.checked = @ + 1]
                /\ UNCHANGED <<pc, err>>
    /\ UNCHANGED <<listVars, extentVars, runVars>>

\* lines 285 and 295: every output passed
LintReturn ==
    /\ pc = "lint"
    /\ probe.checked = Len(probe.outputs)
    /\ pc' = "linted"
    /\ UNCHANGED <<err, probe, listVars, extentVars, runVars>>

SpecLint == InitLint /\ [][LintOutput \/ LintReturn]_vars

\* the documents the validator found invalid, each with its message
FailingDocuments ==
    {[path |-> i, error_message |-> probe.verdicts[i]] :
        i \in {j \in 1..Len(probe.verdicts) : probe.verdicts[j] # "ok"}}

\* C15: a lint that finds invalid documents aborts with an error that
\* names every failing document with its message, and a lint that finds
\* none raises nothing.
C15_ErrorNamesEveryFailure ==
    /\ pc = "aborted" => FailingDocuments # {} /\ err = FailingDocuments
    /\ pc = "linted" => FailingDocuments = {} /\ err = None

(***************************************************************************)
(* The extent a run of the pipeline starts from and records.               *)
(***************************************************************************)
\* C20: a run that creates the Collection starts its accumulators empty,
\* whatever the configuration; a run that opened the Collection starts
\* them from the extent persisted in it.
C20_NewCollectionStartsEmpty ==
    (pc \in {"validate", "writeback"} /\ idx = 1 /\ item_dicts = <<>>) =>
        IF collection_already_exists
        THEN /\ spatial_extent = GetInitialSpatialExtent(remote.collection)
             /\ temporal_extent = GetInitialTemporalExtent(remote.collection)
        ELSE /\ spatial_extent = EmptySpatialExtent
             /\ temporal_extent = EmptyTemporalExtent

\* the fold over the items of a run: the smallest box holding every item's
\* box, and the earliest and latest of the items' datetimes as strings
ExtentOfItems ==
    LET I == 1..Len(item_dicts)
        Least(S) == CHOOSE x \in S : \A y \in S : x <= y
        Greatest(S) == CHOOSE x \in S : \A y \in S : x >= y
        T == {InstantOf(item_dicts[i].datetime) : i \in I}
    IN  Extent(<<Least({item_dicts[i].bbox[1] : i \in I}),
                 Least({item_dicts[i].bbox[2] : i \in I}),
                 Greatest({item_dicts[i].bbox[3] : i \in I}),
                 Greatest({item_dicts[i].bbox[4] : i \in I})>>,
               <<Strftime(Dt(Least(T))), Strftime(Dt(Greatest(T)))>>)

\* C18: a completed run that started with no Collection in the bucket
\* records as the Collection's extent the fold over the items it processed.
C18_ExtentIsFoldOverItems ==
    (pc = "done" /\ hist.before.collection.kind = "absent" /\ item_dicts # <<>>) =>
        remote.collection.extent = ExtentOfItems

(***************************************************************************)
(* The order of the steps of a run.                                        *)
(***************************************************************************)
\* the steps taken for one asset, in the order of the loop body
AssetSteps == <<"validate", "route", "convert_download", "convert_create",
                "convert_upload", "raster", "sidecar", "extent">>
InAssetLoop(p) == \E n \in 1..Len(AssetSteps) : AssetSteps[n] = p
StepRank(p) == CHOOSE n \in 1..Len(AssetSteps) : AssetSteps[n] = p

\* the acquisition date the sidecar of the asset yields, as a datetime
CaldateOf(k) == Dt(SidecarCaldate(k)[1] * 10 + SidecarCaldate(k)[2])

\* the places of an event in the run's log
LogPlaces(event) == {i \in 1..Len(hist.log) : hist.log[i] = event}

\* C24: the documents are published at most once in a run and as its last
\* step but the lint of the upload: publishing comes after every asset is
\* processed, the extent written back, the documents saved and every item
\* added; with the lint enabled it comes after the local lint, and a run the
\* local lint stopped has published nothing; the lint of the upload comes
\* only after publishing; with DISABLE_STAC_LINT neither lint runs.
C24_PublishOnceAtTheEnd ==
    /\ Cardinality(LogPlaces("publish")) <= 1
    /\ pc \notin {"lint_uploaded", "done", "aborted"} =>
          /\ LogPlaces("publish") = {}
          /\ remote = hist.before
    /\ LogPlaces("publish") # {} =>
          /\ pc \in {"lint_uploaded", "done", "aborted"}
          /\ idx = Len(input_keys) + 1
          /\ Len(item_dicts) = Len(input_keys)
          /\ local.items = ItemIds
          /\ local.collection.kind = "collection"
          /\ local.collection.extent.spatial = SpatialList(spatial_extent)
          /\ ItemLinks(item_dicts) \subseteq local.collection.links
          /\ local.catalog.kind = "catalog"
          /\ remote = Upload(hist.before, local)
          /\ \A i \in 1..Len(hist.log) :
                /\ i < First(LogPlaces("publish")) => hist.log[i] # "lint_uploaded"
                /\ i > First(LogPlaces("publish")) => hist.log[i] = "lint_uploaded"
          /\ ~stac_config.DISABLE_STAC_LINT =>
                hist.log[First(LogPlaces("publish")) - 1] = "lint_local"
    /\ LogPlaces("lint_uploaded") # {} => LogPlaces("publish") # {}
    /\ (pc = "aborted" /\ err = "LintError" /\ Last(hist.log) = "lint_local") =>
          LogPlaces("publish") = {} /\ remote = hist.before
    /\ stac_config.DISABLE_STAC_LINT =>
          LogPlaces("lint_local") = {} /\ LogPlaces("lint_uploaded") = {}

C24_Witness ==
    /\ pc = "done"
    /\ ~stac_config.DISABLE_STAC_LINT
    /\ Len(item_dicts) = 2
    /\ LogPlaces("publish") # {}
    /\ Last(hist.log) = "lint_uploaded"
    /\ hist.rerun

\* no key of the bucket ends with COG_SUFFIX, and the temporal extent holds
\* no endpoint
NoSuffixKey == \A k \in bucket : ~EndsWithCogSuffix(k)
NothingSeeded == temporal_extent = EmptyTemporalExtent

C22_StateOfTheLoop ==
    /\ pc = "sidecar" => stac_config.S3_KEY_TO_FGDC_S3_KEY
    /\ InAssetLoop(pc) =>
          Len(item_dicts) = IF pc \in {"sidecar", "extent"} THEN idx ELSE idx - 1
    /\ \A i \in 1..Len(item_dicts) :
          /\ item_dicts[i].metadata => stac_config.S3_KEY_TO_FGDC_S3_KEY
          /\ i < idx => item_dicts[i].metadata = stac_config.S3_KEY_TO_FGDC_S3_KEY
          /\ (item_dicts[i].metadata /\ SidecarCaldate(item_dicts[i].id) # <<>>) =>
                DatetimeToString(item_dicts[i].datetime) =
                   Strftime(CaldateOf(item_dicts[i].id))

\* C22, in every step: within an asset the steps follow the order format
\* check, conversion, metadata extraction, enrichment, extent update; the
\* next asset starts only from the extent update of the one before; and the
\* extent update of an asset whose sidecar yields a date leaves that date
\* inside the temporal extent.
C22_StepsOfTheLoop ==
    /\ (InAssetLoop(pc) /\ InAssetLoop(pc') /\ pc # "extent") =>
          StepRank(pc') > StepRank(pc) /\ idx' = idx
    /\ pc = "extent" =>
          /\ pc' \in {"validate", "writeback", "aborted"}
          /\ pc' # "aborted" => idx' = idx + 1
    /\ pc' = "validate" => pc \in {"open_collection", "extent"}
    /\ pc' = "sidecar" => pc = "raster"
    /\ pc' = "extent" =>
          /\ pc \in {"raster", "sidecar"}
          /\ pc = "raster" => ~stac_config.S3_KEY_TO_FGDC_S3_KEY
    /\ (pc = "extent" /\ pc' # "aborted" /\ item_dicts[idx].metadata
          /\ SidecarCaldate(item_dicts[idx].id) # <<>>) =>
          /\ temporal_extent'.earliest.kind = "datetime"
          /\ temporal_extent'.latest.kind = "datetime"
          /\ temporal_extent'.earliest.t <= CaldateOf(item_dicts[idx].id).t
          /\ temporal_extent'.latest.t >= CaldateOf(item_dicts[idx].id).t
          /\ (temporal_extent.earliest = NoneV) =>
                temporal_extent'.earliest = CaldateOf(item_dicts[idx].id)

\* C22: sidecar enrichment runs for an asset iff S3_KEY_TO_FGDC_S3_KEY is
\* configured; the steps of an asset run in order and to their end before
\* the next asset starts; a date the sidecar yields replaces the item's
\* datetime (a configured ITEM_TIMESTAMP included) and is what the extent
\* update merges.
C22_EnrichmentOrderAndOverride ==
    [][pc # pc' => C22_StepsOfTheLoop]_vars /\ []C22_StateOfTheLoop

C22_Witness ==
    /\ pc = "done"
    /\ bucket = {1}
    /\ stac_config.ITEM_TIMESTAMP = Strftime(Dt(21))
    /\ config_file.extent = NoExtent
    /\ hist.before.collection.kind = "absent"
    /\ item_dicts[1].metadata
    /\ item_dicts[1].datetime = Strftime(Dt(20))
    /\ remote.collection.extent.temporal = <<Strftime(Dt(20)), Strftime(Dt(20))>>

(***************************************************************************)
(* The derived key of convert_to_cog on its own (lines 332-337, 358-366):  *)
(* two source URLs converted in one run, under one collection id.  A text  *)
(* is a sequence of characters; "TIF" and "_COG" stand for these letters   *)
(* in a row.                                                               *)
(***************************************************************************)
MaxUrlLen == 3

UrlChars == {"a", "/", ".", "TIF"}
UrlTexts == UNION {[1..n -> UrlChars] : n \in 1..MaxUrlLen}
CollectionIds == {"c", "d"}

\* s.split(c): the parts of s between the occurrences of c
RECURSIVE Split(_, _)
Split(s, c) ==
    IF Positions(s, c) = {} THEN <<s>>
    ELSE <<SubSeq(s, 1, First(Positions(s, c)) - 1)>>
         \o Split(SubSeq(s, First(Positions(s, c)) + 1, Len(s)), c)

\* ''.join(parts)
RECURSIVE Join(_)
Join(parts) == IF parts = <<>> THEN <<>> ELSE parts[1] \o Join(Tail(parts))

\* '.'.join(parts)
RECURSIVE JoinWithDots(_)
JoinWithDots(parts) ==
    IF parts = <<>> THEN <<>>
    ELSE IF Len(parts) = 1 THEN parts[1]
    ELSE parts[1] \o <<".">> \o JoinWithDots(Tail(parts))

\* lines 333-334
\* (variant: the parts joined with the dots that separated them)
CogFilename_DotsKept(input_url) ==
    LET parts == Split(Basename(input_url), ".")
    IN  JoinWithDots(SubSeq(parts, 1, Len(parts) - 1)) \o <<"_COG", ".", "TIF">>

CogFilename(input_url) ==
    LET parts == Split(Basename(input_url), ".")
    IN  Join(SubSeq(parts, 1, Len(parts) - 1)) \o <<"_COG", ".", "TIF">>

\* lines 336-337, 366: the key the COG is uploaded to and the URL returned
ConvertToCog(collection_id, input_url) ==
    LET s3_key == <<collection_id, "/">> \o CogFilename(input_url)
    IN  [s3_key |-> s3_key, cog_url |-> <<"s3://", "OUTPUT_BUCKET_NAME", "/">> \o s3_key]

InitCog ==
    /\ pc = "convert"
    /\ err = None
    /\ bucket = {}
    /\ ListIdle
    /\ ExtentIdle
    /\ \E id \in CollectionIds, u1 \in UrlTexts, u2 \in UrlTexts :
         probe = [collection_id |-> id, urls |-> <<u1, u2>>, uploaded |-> <<>>,
                  hrefs |-> <<>>]
    /\ RunIdle

\* lines 507-513 for the next of the two assets: the COG is uploaded to its
\* key (358-363) and the returned URL becomes the item's href
ConvertNext ==
    /\ pc = "convert"
    /\ Len(probe.hrefs) < 2
    /\ LET r == ConvertToCog(probe.collection_id, probe.urls[Len(probe.hrefs) + 1])
       IN  probe' = [probe EXCEPT !.uploaded = Append(@, r.s3_key),
                                  !.hrefs = Append(@, r.cog_url)]
    /\ UNCHANGED <<pc, err, listVars, extentVars, runVars>>

\* both assets are converted
ConvertDone ==
    /\ pc = "convert"
    /\ Len(probe.hrefs) = 2
    /\ pc' = "converted"
    /\ UNCHANGED <<err, probe, listVars, extentVars, runVars>>

SpecCog == InitCog /\ [][ConvertNext \/ ConvertDone]_vars

\* the file name of the URL, the positions of its dots, what precedes the
\* last dot and what follows it
FileOf(n) == Basename(probe.urls[n])
DotsOf(n) == Positions(FileOf(n), ".")
BeforeLastDot(n) == SubSeq(FileOf(n), 1, Final(DotsOf(n)) - 1)
AfterLastDot(n) == SubSeq(FileOf(n), Final(DotsOf(n)) + 1, Len(FileOf(n)))

\* C23 (as stated): a source file with an extension is uploaded to
\* <collection-id>/<name without the extension>_COG.<the extension>, and the
\* URL of that key is what is returned.
C23_KeyKeepsNameAndExtension ==
    \A n \in 1..Len(probe.hrefs) :
       (DotsOf(n) # {} /\ AfterLastDot(n) # <<>>) =>
          /\ probe.uploaded[n] = <<probe.collection_id, "/">> \o BeforeLastDot(n)
                                    \o <<"_COG", ".">> \o AfterLastDot(n)
          /\ probe.hrefs[n] = <<"s3://", "OUTPUT_BUCKET_NAME", "/">> \o probe.uploaded[n]

\* C23 (as amended): the file is uploaded to <collection-id>/<stem>_COG.TIF,
\* where <stem> is the file name up to its last dot with every dot removed
\* (empty when the name has no dot), whatever the extension of the source;
\* the URL of that key is what is returned, and the same URL under the same
\* collection id gives the same key.
C23_KeyIsStemCogTif ==
    /\ \A n \in 1..Len(probe.hrefs) :
          LET stem == IF DotsOf(n) = {} THEN <<>>
                      ELSE SelectSeq(BeforeLastDot(n), LAMBDA ch : ch # ".")
          IN  /\ probe.uploaded[n] =
                    <<probe.collection_id, "/">> \o stem \o <<"_COG", ".", "TIF">>
              /\ probe.hrefs[n] =
                    <<"s3://", "OUTPUT_BUCKET_NAME", "/">> \o probe.uploaded[n]
    /\ (pc = "converted" /\ probe.urls[1] = probe.urls[2]) =>
          probe.uploaded[1] = probe.uploaded[2]

C23_Witness ==
    /\ pc = "converted"
    /\ probe.urls[1] = <<"a", ".", "a">>
    /\ probe.urls[2] = <<".", "a", ".">>
    /\ probe.uploaded[1] = <<probe.collection_id, "/", "a", "_COG", ".", "TIF">>
    /\ probe.uploaded[2] = probe.uploaded[1]

\* C26: two different source assets converted in one run are uploaded to
\* different keys, so neither file replaces the other and the two items
\* have different hrefs.
C26_DistinctAssetsDistinctKeys ==
    (pc = "converted" /\ probe.urls[1] # probe.urls[2]) =>
        /\ probe.uploaded[1] # probe.uploaded[2]
        /\ probe.hrefs[1] # probe.hrefs[2]

====
